---------------------------- MODULE Spec2Model ----------------------------
(* Hot-reload coordination of src/src/ametheed/assets/reload.rs:           *)
(* HotReloadStrategy (every / when_triggered / never, trigger,             *)
(* needs_reload), the per-frame HotReloadSystem::run, and the per-frame    *)
(* reload pass over the assets that carry a Reload capability.             *)
EXTENDS Integers, FiniteSets, Sequences

(* ------------------------------ bounds -------------------------------- *)

\* Largest value of the frame counter: stands for std::u64::MAX, so that
\* frame arithmetic is modulo MAX + 1.
MAX == 5

\* Wall-clock resolution: clock units per second (Instant is finer than
\* Duration::as_secs, which truncates to whole seconds).
SubSec == 2

\* Last wall-clock instant of a run, in clock units.
MaxTime == 8

\* Largest interval handed to every(n).
MaxInterval == 2

\* Most trigger() calls counted between two ticks.
MaxCalls == 2

\* Number of loaded assets.
NAssets == 2

\* Most reloads of one asset (its content is the version it was loaded at).
MaxVer == 1

(* ------------------------------- state -------------------------------- *)

VARIABLES
    inner,        \* HotReloadStrategy.inner: the active variant and its fields
    time_frame,   \* Time::frame_number() of the running frame
    now,          \* Instant::now(), in clock units
    phase,        \* "tick": run() of this frame is still to come, "post": it ran
    panicked,     \* the frame addition overflowed in a build that checks it
    content,      \* content of each loaded asset
    src,          \* state of each asset's reload source
    errors,       \* assets with a reload error recorded against them
    created,      \* the constructor the strategy was made with (history)
    ntrig,        \* trigger() calls since the last tick (history)
    calls,        \* trigger() calls the tick of this frame found (history)
    fired_now,    \* run() of this frame set frame_number (history)
    fired_prev,   \* run() of the previous frame set frame_number (history)
    ever_fired,   \* some run() has set frame_number (history)
    polled,       \* results of needs_reload(time_frame) seen in this frame
    q,            \* the last needs_reload call: its argument and its result
    waiting,      \* a trigger() no reload pass has answered yet (history)
    pass_done,    \* the reload pass of this frame has run
    invoked       \* the assets whose needs_reload() and reload() the last
                  \* step called (history)

strategy_vars == <<inner, created>>
clock_vars == <<time_frame, now, phase, panicked>>
asset_vars == <<content, src, errors>>
history_vars == <<ntrig, calls, fired_now, fired_prev, ever_fired, polled,
                  q, waiting, pass_done, invoked>>

vars == <<inner, time_frame, now, phase, panicked, content, src, errors,
          created, ntrig, calls, fired_now, fired_prev,
          ever_fired, polled, q, waiting, pass_done, invoked>>

Frames == 0..MAX

Assets == 1..NAssets

NoQuery == [arg |-> -1, ret |-> FALSE]

NoCalls == [probed |-> {}, reloaded |-> {}]

(* --------------------------- HotReloadStrategy ------------------------ *)

\* HotReloadStrategy::every(n), built at instant t.
every(n, t) ==
    [tag |-> "Every", interval |-> n, last |-> t, frame_number |-> MAX]

when_triggered ==
    [tag |-> "Trigger", triggered |-> FALSE, frame_number |-> MAX]

never == [tag |-> "Never"]

\* trigger that turns any strategy into a triggered one.
trigger_converting(s) ==
    IF s.tag = "Trigger"
    THEN [s EXCEPT !.triggered = TRUE]
    ELSE [tag |-> "Trigger", triggered |-> TRUE, frame_number |-> MAX]

\* trigger that also re-arms the due frame.
trigger_rearming(s) ==
    IF s.tag = "Trigger"
    THEN [s EXCEPT !.triggered = TRUE, !.frame_number = MAX]
    ELSE s

trigger(s) ==
    IF s.tag = "Trigger" THEN [s EXCEPT !.triggered = TRUE] ELSE s

\* needs_reload with the Never arm answering from the sentinel frame.
needs_reload_never_sentinel(s, current_frame) ==
    CASE s.tag = "Every"   -> s.frame_number = current_frame
      [] s.tag = "Trigger" -> s.frame_number = current_frame
      [] s.tag = "Never"   -> current_frame = MAX

\* needs_reload as a level signal: due from the due frame on.
needs_reload_level(s, current_frame) ==
    CASE s.tag = "Every"   -> s.frame_number <= current_frame
      [] s.tag = "Trigger" -> s.frame_number <= current_frame
      [] s.tag = "Never"   -> FALSE

needs_reload(s, current_frame) ==
    CASE s.tag = "Every"   -> s.frame_number = current_frame
      [] s.tag = "Trigger" -> s.frame_number = current_frame
      [] s.tag = "Never"   -> FALSE

\* needs_reload that consumes the pulse it reports.
needs_reload_post_consuming(s, current_frame) ==
    IF s.tag # "Never" /\ s.frame_number = current_frame
    THEN [s EXCEPT !.frame_number = MAX]
    ELSE s

\* The strategy after needs_reload(&self, ..): a shared borrow of plain
\* fields, nothing is written.
needs_reload_post(s, current_frame) == s

\* Instant::elapsed().as_secs(): whole seconds between `last` and t.
elapsed_as_secs(last, t) == (t - last) \div SubSec

\* A firing condition that is met once `interval` whole seconds elapsed.
fires_at_interval(s, t) ==
    CASE s.tag = "Trigger" -> s.triggered
      [] s.tag = "Every"   -> elapsed_as_secs(s.last, t) >= s.interval
      [] s.tag = "Never"   -> FALSE

\* Whether run() takes the branch that assigns frame_number.
fires(s, t) ==
    CASE s.tag = "Trigger" -> s.triggered
      [] s.tag = "Every"   -> elapsed_as_secs(s.last, t) > s.interval
      [] s.tag = "Never"   -> FALSE

\* time.frame_number() + 1 on u64: overflows at MAX.
overflows(frame) == frame + 1 > MAX

wrapping_add1(frame) == (frame + 1) % (MAX + 1)

\* run that latches the current frame instead of the next one.
run_same_frame(s, frame, t) ==
    CASE s.tag = "Trigger" ->
           [s EXCEPT !.frame_number = IF s.triggered THEN frame ELSE @,
                     !.triggered = FALSE]
      [] s.tag = "Every" ->
           IF elapsed_as_secs(s.last, t) > s.interval
           THEN [s EXCEPT !.frame_number = frame, !.last = t]
           ELSE s
      [] s.tag = "Never" -> s

\* run that leaves `triggered` set.
run_keeps_pending(s, frame, t) ==
    CASE s.tag = "Trigger" ->
           [s EXCEPT !.frame_number =
                        IF s.triggered THEN wrapping_add1(frame) ELSE @]
      [] s.tag = "Every" ->
           IF elapsed_as_secs(s.last, t) > s.interval
           THEN [s EXCEPT !.frame_number = wrapping_add1(frame), !.last = t]
           ELSE s
      [] s.tag = "Never" -> s

\* run that restarts the interval on every tick.
run_resets_last(s, frame, t) ==
    CASE s.tag = "Trigger" ->
           [s EXCEPT !.frame_number =
                        IF s.triggered THEN wrapping_add1(frame) ELSE @,
                     !.triggered = FALSE]
      [] s.tag = "Every" ->
           IF elapsed_as_secs(s.last, t) > s.interval
           THEN [s EXCEPT !.frame_number = wrapping_add1(frame), !.last = t]
           ELSE [s EXCEPT !.last = t]
      [] s.tag = "Never" -> s

\* HotReloadSystem::run on strategy s at frame `frame` and instant t,
\* when the addition does not panic.
run(s, frame, t) ==
    CASE s.tag = "Trigger" ->
           [s EXCEPT !.frame_number =
                        IF fires(s, t) THEN wrapping_add1(frame) ELSE @,
                     !.triggered = FALSE]
      [] s.tag = "Every" ->
           IF fires(s, t)
           THEN [s EXCEPT !.frame_number = wrapping_add1(frame), !.last = t]
           ELSE s
      [] s.tag = "Never" -> s

(* ----------------------------- reload pass ---------------------------- *)

\* A reload source is absent ("none": the asset was not loaded from a
\* watchable origin), unchanged ("same"), changed with loadable content
\* ("good") or changed with content whose reload() fails ("bad").

\* Reload::needs_reload of the capability of an asset.
asset_needs_reload(k) == k \in {"good", "bad"}

\* Reload::reload returns Ok(new content) rather than Err.
reload_succeeds(k) == k = "good"

\* An entry that reloads every asset that has a source, changed or not.
reload_entry_unchecked(st, a) ==
    IF st.src[a] = "none"
    THEN st
    ELSE IF reload_succeeds(st.src[a])
         THEN [st EXCEPT !.content[a] = @ + 1, !.src[a] = "same",
                         !.probed = @ \cup {a}, !.reloaded = @ \cup {a}]
         ELSE [st EXCEPT !.errors = @ \cup {a},
                         !.probed = @ \cup {a}, !.reloaded = @ \cup {a}]

\* One entry of the pass: skip an asset without a source or with an
\* unchanged one, otherwise reload a clone of its capability; swap the
\* content in on success, keep it and record the error on failure.
reload_entry(st, a) ==
    IF st.src[a] = "none"
    THEN st
    ELSE IF ~asset_needs_reload(st.src[a])
    THEN [st EXCEPT !.probed = @ \cup {a}]
    ELSE IF reload_succeeds(st.src[a])
         THEN [st EXCEPT !.content[a] = @ + 1, !.src[a] = "same",
                         !.probed = @ \cup {a}, !.reloaded = @ \cup {a}]
         ELSE [st EXCEPT !.errors = @ \cup {a},
                         !.probed = @ \cup {a}, !.reloaded = @ \cup {a}]

\* A pass that stops at the first entry whose reload fails.
RECURSIVE reload_entries_aborting(_, _)
reload_entries_aborting(st, order) ==
    IF order = <<>> THEN st
    ELSE IF st.src[Head(order)] = "bad"
         THEN reload_entry(st, Head(order))
         ELSE reload_entries_aborting(reload_entry(st, Head(order)), Tail(order))

\* The entries of the pass, in the order the store iterates them.
RECURSIVE reload_entries(_, _)
reload_entries(st, order) ==
    IF order = <<>> THEN st
    ELSE reload_entries(reload_entry(st, Head(order)), Tail(order))

\* The reload pass at frame `frame`: nothing unless the strategy is due.
reload_pass(s, frame, st, order) ==
    IF needs_reload(s, frame) THEN reload_entries(st, order) ELSE st

\* The iteration orders of the asset store.
Orders == {o \in [1..NAssets -> Assets] : \A i, j \in 1..NAssets : o[i] = o[j] => i = j}

(* ------------------------------ actions ------------------------------- *)

InitHistory ==
    /\ ntrig = 0
    /\ calls = 0
    /\ fired_now = FALSE
    /\ fired_prev = FALSE
    /\ ever_fired = FALSE
    /\ polled = {}
    /\ q = NoQuery
    /\ waiting = FALSE
    /\ pass_done = FALSE
    /\ invoked = NoCalls

InitClock ==
    /\ now = 0
    /\ time_frame = 0
    /\ phase = "tick"
    /\ panicked = FALSE

\* The strategy is made by one of the three constructors at world setup.
InitStrategy ==
    \/ \E n \in 0..MaxInterval : inner = every(n, now) /\ created = "every"
    \/ inner = when_triggered /\ created = "when_triggered"
    \/ inner = never /\ created = "never"

Init ==
    /\ InitClock
    /\ InitStrategy
    /\ content = [a \in Assets |-> 0]
    /\ src = [a \in Assets |-> "same"]
    /\ errors = {}
    /\ InitHistory

\* HotReloadSystem::run, once per frame. When the firing branch adds 1 to
\* the largest frame number, the build decides: a panic before anything is
\* assigned (overflow checks on) or a wrap to 0 (overflow checks off).
TickBuild(overflow_checks) ==
    /\ ~panicked
    /\ phase = "tick"
    /\ IF fires(inner, now) /\ overflows(time_frame) /\ overflow_checks
       THEN /\ panicked' = TRUE
            /\ UNCHANGED <<inner, phase, ntrig, calls, fired_now, ever_fired>>
       ELSE /\ inner' = run(inner, time_frame, now)
            /\ fired_now' = fires(inner, now)
            /\ ever_fired' = (ever_fired \/ fires(inner, now))
            /\ phase' = "post"
            /\ calls' = ntrig
            /\ ntrig' = 0
            /\ UNCHANGED panicked
    /\ q' = NoQuery
    /\ invoked' = NoCalls
    /\ UNCHANGED <<time_frame, now, created, fired_prev, polled, waiting,
                   pass_done>>
    /\ UNCHANGED asset_vars

\* The tick in either build.
Tick == \E overflow_checks \in BOOLEAN : TickBuild(overflow_checks)

\* HotReloadStrategy::trigger, called by any other system of the frame.
Trigger ==
    /\ ~panicked
    /\ ntrig < MaxCalls
    /\ inner' = trigger(inner)
    /\ ntrig' = ntrig + 1
    /\ waiting' = (waiting \/ created = "when_triggered")
    /\ q' = NoQuery
    /\ invoked' = NoCalls
    /\ UNCHANGED <<created, calls, fired_now, fired_prev, ever_fired, polled,
                   pass_done>>
    /\ UNCHANGED clock_vars
    /\ UNCHANGED asset_vars

\* A caller polls needs_reload(f) after the tick of the frame.
Query(f) ==
    /\ ~panicked
    /\ phase = "post"
    /\ q' = [arg |-> f, ret |-> needs_reload(inner, f)]
    /\ invoked' = NoCalls
    /\ inner' = needs_reload_post(inner, f)
    /\ polled' = IF f = time_frame
                 THEN polled \cup {needs_reload(inner, f)} ELSE polled
    /\ UNCHANGED <<created, ntrig, calls, fired_now, fired_prev, ever_fired,
                   waiting, pass_done>>
    /\ UNCHANGED clock_vars
    /\ UNCHANGED asset_vars

\* The reload pass of the frame, after the tick: one
\* needs_reload(current_frame) query, then the entries of the store.
Pass ==
    /\ ~panicked
    /\ phase = "post"
    /\ ~pass_done
    /\ pass_done' = TRUE
    /\ q' = [arg |-> time_frame, ret |-> needs_reload(inner, time_frame)]
    /\ inner' = needs_reload_post(inner, time_frame)
    /\ polled' = polled \cup {needs_reload(inner, time_frame)}
    /\ waiting' = (waiting /\ ~needs_reload(inner, time_frame))
    /\ \E order \in Orders :
         LET st == reload_pass(inner, time_frame,
                               [content |-> content, src |-> src,
                                errors |-> errors, probed |-> {},
                                reloaded |-> {}], order)
         IN  /\ content' = st.content
             /\ src' = st.src
             /\ errors' = st.errors
             /\ invoked' = [probed |-> st.probed, reloaded |-> st.reloaded]
    /\ UNCHANGED <<created, ntrig, calls, fired_now, fired_prev, ever_fired>>
    /\ UNCHANGED clock_vars

\* The frame ends and frame `next` starts.
EndFrame(next) ==
    /\ ~panicked
    /\ phase = "post"
    /\ time_frame' = next
    /\ phase' = "tick"
    /\ fired_prev' = fired_now
    /\ fired_now' = FALSE
    /\ calls' = 0
    /\ polled' = {}
    /\ pass_done' = FALSE
    /\ q' = NoQuery
    /\ invoked' = NoCalls
    /\ UNCHANGED <<now, panicked, ntrig, ever_fired, waiting>>
    /\ UNCHANGED strategy_vars
    /\ UNCHANGED asset_vars

\* The frame counter goes up by one per frame, up to its largest value.
AdvanceFrame ==
    /\ time_frame < MAX
    /\ EndFrame(time_frame + 1)

\* Wall-clock time passes. Only the Every variant holds an Instant, so the
\* clock is advanced only where it can be read.
Tock ==
    /\ ~panicked
    /\ inner.tag = "Every"
    /\ now < MaxTime
    /\ now' = now + 1
    /\ q' = NoQuery
    /\ invoked' = NoCalls
    /\ UNCHANGED <<time_frame, phase, panicked>>
    /\ UNCHANGED <<ntrig, calls, fired_now, fired_prev, ever_fired, polled,
                   waiting, pass_done>>
    /\ UNCHANGED strategy_vars
    /\ UNCHANGED asset_vars

Next ==
    \/ Tick
    \/ Trigger
    \/ \E f \in Frames : Query(f)
    \/ Pass
    \/ AdvanceFrame
    \/ Tock

Spec == Init /\ [][Next]_vars

(* ------------------- the reload pass with live sources ----------------- *)

\* The backing source of asset a changes on disk: to content that loads
\* (k = "good") or to content that does not (k = "bad").
Touch(a, k) ==
    /\ ~panicked
    /\ src[a] # "none"
    /\ src[a] # k
    /\ content[a] < MaxVer
    /\ src' = [src EXCEPT ![a] = k]
    /\ q' = NoQuery
    /\ invoked' = NoCalls
    /\ UNCHANGED <<content, errors>>
    /\ UNCHANGED <<ntrig, calls, fired_now, fired_prev, ever_fired, polled,
                   waiting, pass_done>>
    /\ UNCHANGED strategy_vars
    /\ UNCHANGED clock_vars

\* A triggered strategy over a store whose assets have a reload source or
\* were loaded from inline data.
InitAssets ==
    /\ InitClock
    /\ inner = when_triggered /\ created = "when_triggered"
    /\ content = [a \in Assets |-> 0]
    /\ src \in [Assets -> {"none", "same"}]
    /\ errors = {}
    /\ InitHistory

NextAssets ==
    \/ Tick
    \/ Trigger
    \/ Pass
    \/ AdvanceFrame
    \/ \E a \in Assets, k \in {"good", "bad"} : Touch(a, k)

SpecAssets == InitAssets /\ [][NextAssets]_vars

(* ------------- the frame loop of a build that wraps on overflow -------- *)

\* The frame counter wraps from its largest value to 0.
WrapFrame ==
    /\ time_frame = MAX
    /\ EndFrame(wrapping_add1(time_frame))

InitLive ==
    /\ Init
    /\ created = "when_triggered"

\* Every frame runs the tick, then the reload pass, then ends.
NextLive ==
    \/ TickBuild(FALSE)
    \/ Trigger
    \/ Pass
    \/ (pass_done /\ AdvanceFrame)
    \/ (pass_done /\ WrapFrame)

\* The dispatcher runs every system of a frame and then starts the next
\* frame; nothing obliges any system to call trigger().
SpecLive ==
    /\ InitLive
    /\ [][NextLive]_vars
    /\ WF_vars(TickBuild(FALSE))
    /\ WF_vars(Pass)
    /\ WF_vars(pass_done /\ (AdvanceFrame \/ WrapFrame))

(* ------------------------------- claims ------------------------------- *)

\* A completed run() of the frame.
TickStep == phase = "tick" /\ phase' = "post"

\* A trigger() call.
TriggerStep == ntrig' = ntrig + 1

\* A needs_reload call (a poll, or the query of the reload pass).
QueryStep == q'.arg # -1

\* The reload pass of the frame.
PassStep == ~pass_done /\ pass_done'

\* The frame number after `frame`, in the counter's arithmetic.
NextFrameNumber(frame) == (frame + 1) % (MAX + 1)

\* C1: a strategy made by never() is due at no frame number, whatever
\* ticks and trigger() calls came before, and no needs_reload call on it
\* returns true.
C1_NeverIsNeverDue ==
    created = "never" =>
        /\ \A f \in Frames : ~needs_reload(inner, f)
        /\ q.arg # -1 => ~q.ret

C1_Witness ==
    /\ created = "never"
    /\ time_frame >= 2
    /\ ntrig >= 1
    /\ q.arg = time_frame

\* C2 (as claimed): whatever the number of trigger() calls, zero included,
\* between the tick of frame N and the tick of frame N+1 of a
\* when_triggered() strategy, after the tick of frame N+1 needs_reload is
\* true for frame N+2 and for no other frame.
C2_Claim_ZeroOrMoreCalls ==
    (created = "when_triggered" /\ phase = "post") =>
        \A f \in Frames :
            needs_reload(inner, f) <=> f = NextFrameNumber(time_frame)

\* C2 (amended): one or more trigger() calls between the tick of frame N
\* and the tick of frame N+1 make needs_reload, once the tick of frame N+1
\* has completed, true for the frame number N+2 alone, however many calls
\* there were.
C2_Coalescing ==
    (created = "when_triggered" /\ phase = "post" /\ calls >= 1) =>
        \A f \in Frames :
            needs_reload(inner, f) <=> f = NextFrameNumber(time_frame)

C2_Witness ==
    /\ created = "when_triggered"
    /\ phase = "post"
    /\ calls = MaxCalls
    /\ time_frame >= 1
    /\ q = [arg |-> time_frame + 1, ret |-> TRUE]

\* C3: a tick of an every(interval) strategy at which the time since
\* last_fire is at least interval seconds fires (the next frame, and only
\* it, is due), and a tick before the interval has elapsed leaves no frame
\* newly due.
C3_Claim_FiresAtInterval ==
    [][(TickStep /\ created = "every") =>
          /\ (now - inner.last >= inner.interval * SubSec) =>
                 \A f \in Frames :
                     needs_reload(inner', f) <=> f = NextFrameNumber(time_frame)
          /\ (now - inner.last < inner.interval * SubSec) =>
                 inner'.frame_number = inner.frame_number]_vars

\* C4: a tick of an every(interval) strategy fires exactly when the time
\* since last_fire exceeds interval seconds, by however small a fraction of
\* a second: it then sets due_frame to the next frame and last_fire to now,
\* and otherwise changes nothing.
C4_Claim_FiresOnFraction ==
    [][(TickStep /\ created = "every") =>
          IF now - inner.last > inner.interval * SubSec
          THEN /\ inner'.frame_number = NextFrameNumber(time_frame)
               /\ inner'.last = now
          ELSE inner' = inner]_vars

\* C5: every trigger() on a when_triggered() strategy is eventually
\* followed by a frame whose reload pass finds needs_reload true, whatever
\* trigger() calls follow it.
C5_Claim_TriggerIsAnswered == waiting ~> ~waiting

\* C6: a fire in the previous frame makes the query of this frame's reload
\* pass return true, a true result after a fire is on account of the fire
\* of the previous frame, and all queries of one frame agree.
C6_Claim_OneOpportunityPerFire ==
    /\ (fired_prev /\ pass_done) => TRUE \in polled
    /\ (ever_fired /\ TRUE \in polled) => fired_prev
    /\ Cardinality(polled) <= 1

\* C7: until the first fire, a strategy made by every(n) or
\* when_triggered() holds the largest frame number as its due frame and
\* every needs_reload query at the frame the clock presents returns false.
C7_Claim_NoReloadBeforeFirstFire ==
    (created \in {"every", "when_triggered"} /\ ~ever_fired) =>
        /\ inner.frame_number = MAX
        /\ \A r \in polled : r = FALSE

\* C8: a needs_reload(f) call returns due_frame = f for a stateful variant
\* (false for Never), leaves the strategy as it was, and returns what the
\* call before it returned when that call had the same f.
C8_PureQuery ==
    [][QueryStep =>
          /\ q'.ret = (inner.tag # "Never" /\ inner.frame_number = q'.arg)
          /\ inner' = inner
          /\ (q.arg = q'.arg) => (q'.ret = q.ret)]_vars

C8_Witness ==
    /\ q.arg = time_frame
    /\ q.ret
    /\ fired_prev
    /\ ~pass_done

\* C9: trigger() leaves a strategy that is not Triggered exactly as it
\* was, and on a Triggered one sets pending and nothing else; a tick of a
\* strategy that is not Triggered fires on elapsed time alone.
C9_TriggerEffect ==
    [][/\ TriggerStep =>
            IF inner.tag = "Trigger"
            THEN inner' = [inner EXCEPT !.triggered = TRUE]
            ELSE inner' = inner
       /\ (TickStep /\ inner.tag # "Trigger" /\ fired_now') =>
            /\ inner.tag = "Every"
            /\ now - inner.last >= (inner.interval + 1) * SubSec]_vars

C9_Witness ==
    /\ created = "every"
    /\ ntrig = MaxCalls
    /\ phase = "tick"
    /\ time_frame >= 1
    /\ ~ever_fired

\* C10: in the reload pass of a due frame every asset whose source changed
\* and reloads ends the pass with the new content, and every asset whose
\* source changed and fails to reload ends it with the content it had and
\* an error recorded against it, in whatever order the store iterates and
\* whatever happens to the other assets.
C10_ReloadIsolation ==
    [][(PassStep /\ inner.tag # "Never" /\ inner.frame_number = time_frame) =>
          \A a \in Assets :
              /\ src[a] = "good" => content'[a] = content[a] + 1
              /\ src[a] = "bad" =>
                     (content'[a] = content[a] /\ a \in errors')]_vars

C10_Witness ==
    /\ pass_done
    /\ q = [arg |-> time_frame, ret |-> TRUE]
    /\ \E a, b \in Assets :
           /\ a < b
           /\ a \in errors /\ src[a] = "bad" /\ content[a] = 0
           /\ content[b] = 1 /\ src[b] = "same"

\* The strategy is due at the running frame.
DueFrame == inner.tag # "Never" /\ inner.frame_number = time_frame

C12_UnchangedAssetIsSkipped ==
    [][(PassStep /\ DueFrame) =>
          \A a \in Assets :
              src[a] = "same" =>
                  /\ a \in invoked'.probed
                  /\ a \notin invoked'.reloaded
                  /\ content'[a] = content[a]
                  /\ src'[a] = src[a]
                  /\ (a \in errors') = (a \in errors)]_vars

C12_Witness ==
    /\ pass_done
    /\ q = [arg |-> time_frame, ret |-> TRUE]
    /\ \E a, b \in Assets :
           /\ a \in invoked.probed /\ a \notin invoked.reloaded
           /\ content[a] = 0
           /\ b \in invoked.reloaded /\ content[b] = 1

\* C13: a completed tick of a Triggered strategy leaves pending false; it
\* sets due_frame to current_frame + 1 (in the counter's arithmetic) when
\* pending was true and leaves due_frame alone when it was false; it fires
\* exactly when trigger() was called since the tick before it.
C13_TickConsumesPending ==
    [][(TickStep /\ inner.tag = "Trigger") =>
          /\ inner'.triggered = FALSE
          /\ IF inner.triggered
             THEN inner'.frame_number = NextFrameNumber(time_frame)
             ELSE inner'.frame_number = inner.frame_number
          /\ fired_now' = inner.triggered
          /\ inner.triggered = (ntrig >= 1)]_vars

C13_Witness ==
    /\ created = "when_triggered"
    /\ phase = "post"
    /\ fired_prev
    /\ ~fired_now
    /\ calls = 0
    /\ ~inner.triggered
    /\ inner.frame_number = time_frame

\* C14: a tick that does not fire changes nothing a query can observe: on
\* a Disabled strategy nothing at all, on a Triggered strategy that is not
\* pending not the due frame, on a Periodic strategy whose interval has not
\* elapsed neither the due frame nor last_fire.
C14_IdleTickChangesNothing ==
    [][TickStep =>
          /\ inner.tag = "Never" => inner' = inner
          /\ (inner.tag = "Trigger" /\ ~inner.triggered) =>
                 inner'.frame_number = inner.frame_number
          /\ (inner.tag = "Every"
                /\ now - inner.last < (inner.interval + 1) * SubSec) =>
                 /\ inner'.frame_number = inner.frame_number
                 /\ inner'.last = inner.last
          /\ ~fired_now' =>
                 \A f \in Frames :
                     needs_reload(inner', f) = needs_reload(inner, f)]_vars

C14_Witness ==
    /\ created = "every"
    /\ phase = "post"
    /\ ~fired_now
    /\ ever_fired
    /\ now >= inner.last + inner.interval * SubSec
    /\ inner.interval >= 1

C16_LatePassMissesTheFire ==
    (created = "when_triggered" /\ ever_fired /\ TRUE \in polled) =>
        /\ fired_prev
        /\ inner.frame_number = time_frame

C16_Witness ==
    /\ created = "when_triggered"
    /\ waiting
    /\ pass_done
    /\ q = [arg |-> time_frame, ret |-> FALSE]
    /\ ever_fired
    /\ ~fired_now
    /\ ~fired_prev
    /\ ~inner.triggered
    /\ inner.frame_number < time_frame

\* C17: no step changes the variant the strategy was made with, and no
\* step changes the interval of a Periodic strategy.
C17_PolicyIsFixed ==
    [][/\ inner'.tag = inner.tag
       /\ inner.tag = "Every" => inner'.interval = inner.interval]_vars

C17_Witness ==
    /\ created = "every"
    /\ inner.tag = "Every"
    /\ inner.interval = MaxInterval
    /\ ever_fired
    /\ ntrig >= 1
    /\ pass_done

\* C18: a tick that fires at frame F completes and stores F + 1, the
\* integer after F, as the due frame, at the largest frame number too.
C18_Claim_NoOverflow ==
    [][(phase = "tick" /\ fires(inner, now) /\ (phase' = "post" \/ panicked')) =>
          /\ ~panicked'
          /\ inner'.frame_number = time_frame + 1
          /\ inner'.frame_number > time_frame]_vars

=============================================================================
